---------------------------- MODULE Spec2Model ----------------------------
(***************************************************************************)
(* Model of the study-buddy backend: the summary endpoints of              *)
(* backend/apis/gpt_api.py, the flashcard generator of                     *)
(* backend/apis/flashcards_api.py and the sign-up / login callables of     *)
(* backend/apis/auth_api.py, over the tables of backend/models/db_model.py.*)
(*                                                                         *)
(* Strings are kept run-length encoded: a text is a sequence of runs       *)
(* [c |-> character, n |-> repetitions >= 1] in which neighbouring runs    *)
(* hold different characters, so two texts are equal exactly when their    *)
(* encodings are equal, and the program's own size constants (4000, 300,   *)
(* 700, 1200, 500) can be used unscaled.                                   *)
(***************************************************************************)
EXTENDS Integers, Naturals, Sequences, FiniteSets, TLC

VARIABLES
    courses,      \* table "courses": course_id -> course_content
    summaries,    \* table "summary": set of rows
    nextSummaryId,\* autoincrement of summary.summary_id
    started,      \* number of requests accepted so far (bounded)
    pc,           \* per worker: position inside the handler it runs
    req,          \* per worker: the request it serves
    prompt,       \* per worker: the text part of the model input (content[:4000])
    sent,         \* per worker: texts handed to the external call in this request
    ai,           \* per worker: outcome of client.responses.create (resp, or e)
    dels,         \* per worker: summary_ids deleted in its open transaction
    resp,         \* per worker: the last response (or raised error) it produced
    users,        \* table "User": set of rows
    nextUserId,   \* autoincrement of User.user_id
    fc_raw,       \* flashcards: raw, the model output of one generation
    fc_n,         \* flashcards: n, the number of cards asked for
    fc_result,    \* flashcards: what _generate_flashcards_from_text returned
    flashcards,   \* table "flashcards": set of rows
    nextFlashcardId, \* autoincrement of flashcards.flashcard_id
    deck,         \* per worker: cards, the list create_or_replace_flashcards got
    card_dels     \* per worker: flashcard_ids matched by its DELETE statement

summaryVars == <<courses, summaries, nextSummaryId, prompt, sent, ai, dels>>

authVars == <<users, nextUserId>>

cardVars == <<fc_raw, fc_n, fc_result>>

deckVars == <<flashcards, nextFlashcardId, deck, card_dels>>

workerVars == <<started, pc, req, resp>>

vars == <<summaryVars, started, pc, req, resp, authVars, cardVars, deckVars>>

---------------------------------------------------------------------------
(* Bounds of the model *)

MaxRequests == 3
MaxTokenChars == 2

Workers == {1, 2}

---------------------------------------------------------------------------
(* Strings *)

Run(c, n) == [c |-> c, n |-> n]

Empty == << >>

\* len(T)
RECURSIVE TextLen(_)
TextLen(T) == IF T = << >> THEN 0 ELSE Head(T).n + TextLen(Tail(T))

\* T[:k]
RECURSIVE Prefix(_, _)
Prefix(T, k) ==
    IF k <= 0 \/ T = << >> THEN << >>
    ELSE IF Head(T).n <= k
         THEN <<Head(T)>> \o Prefix(Tail(T), k - Head(T).n)
         ELSE <<Run(Head(T).c, k)>>

\* T[k:]
RECURSIVE Suffix(_, _)
Suffix(T, k) ==
    IF T = << >> THEN << >>
    ELSE IF k <= 0 THEN T
    ELSE IF Head(T).n <= k THEN Suffix(Tail(T), k - Head(T).n)
    ELSE <<Run(Head(T).c, Head(T).n - k)>> \o Tail(T)

\* A + B
Concat(A, B) ==
    IF A = << >> THEN B
    ELSE IF B = << >> THEN A
    ELSE IF A[Len(A)].c = Head(B).c
         THEN SubSeq(A, 1, Len(A) - 1)
              \o <<Run(Head(B).c, A[Len(A)].n + Head(B).n)>>
              \o Tail(B)
         ELSE A \o B

\* "".join(chunks)
RECURSIVE ConcatAll(_)
ConcatAll(chunks) ==
    IF chunks = << >> THEN Empty
    ELSE Concat(Head(chunks), ConcatAll(Tail(chunks)))

IsSpace(c) == c \in {" ", "\n", "\t"}

RECURSIVE LStrip(_)
LStrip(T) == IF T # << >> /\ IsSpace(Head(T).c) THEN LStrip(Tail(T)) ELSE T

RECURSIVE RStrip(_)
RStrip(T) ==
    IF T # << >> /\ IsSpace(T[Len(T)].c)
    THEN RStrip(SubSeq(T, 1, Len(T) - 1))
    ELSE T

\* str.strip()
Strip(T) == RStrip(LStrip(T))

(* Short strings that are compared letter by letter (summary_length, e-mail
   addresses) are plain sequences of one-character strings. *)
ToLower ==
    [A |-> "a", B |-> "b", G |-> "g", H |-> "h", L |-> "l", N |-> "n",
     O |-> "o", R |-> "r", S |-> "s", T |-> "t"]

LowerChar(c) == IF c \in DOMAIN ToLower THEN ToLower[c] ELSE c

\* str.lower()
Lower(w) == [i \in DOMAIN w |-> LowerChar(w[i])]

RECURSIVE LStripW(_)
LStripW(w) == IF w # << >> /\ IsSpace(Head(w)) THEN LStripW(Tail(w)) ELSE w

RECURSIVE RStripW(_)
RStripW(w) ==
    IF w # << >> /\ IsSpace(w[Len(w)])
    THEN RStripW(SubSeq(w, 1, Len(w) - 1))
    ELSE w

StripW(w) == RStripW(LStripW(w))

---------------------------------------------------------------------------
(* Responses: _fail / _success of the api modules; an exception that leaves the
   handler is kept as a response of status "RAISED" naming the error type. *)

Fail(msg) == [status |-> "FAIL", statusCode |-> 200, message |-> msg, data |-> Empty]

Success(data_str, message) ==
    [status |-> "SUCCESS", statusCode |-> 200, message |-> message, data |-> data_str]

Raised(kind) == [status |-> "RAISED", statusCode |-> 500, message |-> <<kind>>, data |-> Empty]

NoResponse == [status |-> "NONE", statusCode |-> 0, message |-> << >>, data |-> Empty]

---------------------------------------------------------------------------
(* POST /courses/{course_id}/summary and GET /courses/{course_id}/summary *)

W_short == <<"s", "h", "o", "r", "t">>
W_medium == <<"m", "e", "d", "i", "u", "m">>
W_long == <<"l", "o", "n", "g">>

\* body.get("summary_length") of a body without the key
NoneValue == <<"<None>">>

summary_map == (W_short :> 300) @@ (W_medium :> 700) @@ (W_long :> 1200)

\* summary_map.get(key): None is written 0, both are falsy in "if not max_chars"
SummaryMapGet(key) == IF key \in DOMAIN summary_map THEN summary_map[key] ELSE 0

MaxPromptChars == 4000

\* mutant: the slice taken one character short
UserPromptTextOffByOne(content) == Prefix(content, MaxPromptChars - 1)

\* the course text inside user_prompt: content[:4000]
UserPromptText(content) == Prefix(content, MaxPromptChars)

\* str(resp) of a response object: some non-empty text
StrOfResponse(r) == <<Run("R", 1), Run("(", 1), Run(")", 1)>>

\* summary_text = getattr(resp, "output_text", None) or str(resp)
SummaryTextOf(r) == IF r.output_text # Empty THEN r.output_text ELSE StrOfResponse(r)

ErrorKinds == {"RateLimitError", "KeyboardInterrupt"}

\* except Exception: KeyboardInterrupt derives from BaseException only
IsException(kind) == kind # "KeyboardInterrupt"

\* mutant: the except branch re-raises
OnCallErrorReraise(kind) == Raised(kind)

\* the except branch of generate_course_summary
OnCallError(kind) ==
    IF IsException(kind) THEN Fail(<<"AI summarization failed", kind>>)
    ELSE Raised(kind)

(* client.responses.create(..., max_output_tokens=max_tokens): the service
   answers with at most max_tokens tokens, each of one or more characters, or
   the call raises. *)
ModelOutcomes(max_tokens) ==
    {[ok |-> TRUE, output_text |-> Empty, error |-> ""]}
    \cup {[ok |-> TRUE, output_text |-> <<Run("x", t.tokens * t.width)>>, error |-> ""] :
            t \in {[tokens |-> 1, width |-> 1],
                    [tokens |-> max_tokens, width |-> MaxTokenChars]}}
    \cup {[ok |-> FALSE, output_text |-> Empty, error |-> k] : k \in ErrorKinds}

NoOutcome == [ok |-> FALSE, output_text |-> Empty, error |-> ""]

\* the where clause of the delete in generate_course_summary
MatchesSummary(r, course_id, summary_length) ==
    r.course_id = course_id /\ r.summary_length = summary_length

\* mutant: the table without its unique constraint
UniqueCourseSummaryMissing(rows) == TRUE

\* UniqueConstraint("course_id", "summary_length", name="uq_course_summary")
UniqueCourseSummary(rows) ==
    \A r1, r2 \in rows :
        (r1.course_id = r2.course_id /\ r1.summary_length = r2.summary_length)
            => r1 = r2

SummaryRow(id, course_id, summary_length, text) ==
    [summary_id |-> id, course_id |-> course_id,
     summary_length |-> summary_length, summary_content |-> text]

\* length = (summary_length or "").strip().lower()
GetLookupLength(summary_length) == Lower(StripW(summary_length))

\* get_course_summary, a read of the committed table
get_course_summary(course_id, summary_length) ==
    LET length == GetLookupLength(summary_length)
        rows == {r \in summaries : MatchesSummary(r, course_id, length)}
    IN  IF length \notin {W_short, W_medium, W_long}
        THEN Fail(<<"Invalid summary_length">>)
        ELSE IF rows = {}
        THEN Fail(<<"No summary found", course_id, length>>)
        ELSE IF Cardinality(rows) > 1
        THEN Raised("MultipleResultsFound")
        ELSE LET row == CHOOSE r \in rows : TRUE
             IN  Success([summary_id |-> row.summary_id, course_id |-> course_id,
                          summary_length |-> length,
                          summary_content |-> row.summary_content],
                         <<"Fetched summary", course_id, length>>)

(* Course texts as the ingestion endpoint receives them; it stores
   str(content).strip() and refuses an empty result. *)
RawCourseTexts ==
    { <<Run(" ", 2), Run("a", 10), Run("\n", 1), Run("b", 3), Run(" ", 1)>>,
      <<Run("a", MaxPromptChars)>>,
      <<Run("a", 3 * MaxPromptChars), Run("\n", 1), Run("c", 500)>>,
      <<Run(" ", 3)>> }

CourseIds == {1}

\* course ids a request may name: the stored ones and one that is not stored
RequestCourseIds == CourseIds \cup {2}

RawLengths ==
    { W_short, <<"S", "h", "o", "r", "t">>, <<"t", "i", "n", "y">>, NoneValue }

GetLengths ==
    { W_short, <<"S", "h", "o", "r", "t">>, <<" ", "l", "o", "n", "g">>,
      <<"t", "i", "n", "y">> }

PostRequest(course_id, summary_length) ==
    [op |-> "generate_course_summary", course_id |-> course_id,
     summary_length |-> summary_length]

GetRequest(course_id, summary_length) ==
    [op |-> "get_course_summary", course_id |-> course_id,
     summary_length |-> summary_length]

NoRequest == [op |-> "none", course_id |-> 0, summary_length |-> << >>]

\* lines 222-251: validation, the read of the course, the prompt
GenerateStart(p) ==
    /\ pc[p] = "idle"
    /\ started < MaxRequests
    /\ \E course_id \in RequestCourseIds, summary_length \in RawLengths :
        LET max_chars == SummaryMapGet(Lower(summary_length))
            content == IF course_id \in DOMAIN courses
                       THEN Strip(courses[course_id]) ELSE Empty
            stop(r) == /\ resp' = [resp EXCEPT ![p] = r]
                       /\ UNCHANGED <<pc, prompt>>
        IN  /\ req' = [req EXCEPT ![p] = PostRequest(course_id, summary_length)]
            /\ sent' = [sent EXCEPT ![p] = << >>]
            /\ ai' = [ai EXCEPT ![p] = NoOutcome]
            /\ IF summary_length = NoneValue
               THEN stop(Raised("AttributeError"))
               ELSE IF max_chars = 0
               THEN stop(Fail(<<"Invalid summary_length">>))
               ELSE IF course_id \notin DOMAIN courses
               THEN stop(Fail(<<"Course not found", course_id>>))
               ELSE IF content = Empty
               THEN stop(Fail(<<"Course has no content", course_id>>))
               ELSE /\ pc' = [pc EXCEPT ![p] = "call"]
                    /\ prompt' = [prompt EXCEPT ![p] = UserPromptText(content)]
                    /\ resp' = [resp EXCEPT ![p] = NoResponse]
    /\ started' = started + 1
    /\ UNCHANGED <<courses, summaries, nextSummaryId, dels>>
    /\ UNCHANGED <<authVars, cardVars, deckVars>>

\* mutant: a second call (a merge pass) after the first
SentAfterCallTwice(handed, text) == Append(Append(handed, text), text)

\* the texts handed to client.responses.create so far, after one more call
SentAfterCall(handed, text) == Append(handed, text)

\* mutant: a failed call is tried again
AfterCallRetry(r) == IF r.ok THEN "delete" ELSE "call"

\* where the handler goes after the call: on to the database, or out
AfterCall(r) == IF r.ok THEN "delete" ELSE "idle"

\* lines 253-261: the one external call and its except branch
GenerateCall(p) ==
    /\ pc[p] = "call"
    /\ sent' = [sent EXCEPT ![p] = SentAfterCall(@, prompt[p])]
    /\ \E r \in ModelOutcomes(SummaryMapGet(Lower(req[p].summary_length))) :
        /\ ai' = [ai EXCEPT ![p] = r]
        /\ pc' = [pc EXCEPT ![p] = AfterCall(r)]
        /\ IF r.ok
           THEN UNCHANGED resp
           ELSE resp' = [resp EXCEPT ![p] = OnCallError(r.error)]
    /\ prompt' = [prompt EXCEPT ![p] = IF pc'[p] = "idle" THEN Empty ELSE @]
    /\ UNCHANGED <<courses, summaries, nextSummaryId, started, req, dels>>
    /\ UNCHANGED <<authVars, cardVars, deckVars>>

(* lines 263-266: db.execute(delete(...)) in a new transaction. The statement
   removes the committed rows that match and keeps them locked until the
   transaction ends; it waits while another open transaction holds one of them. *)
GenerateDelete(p) ==
    LET hit == {r.summary_id : r \in {x \in summaries :
                    MatchesSummary(x, req[p].course_id, req[p].summary_length)}}
    IN  /\ pc[p] = "delete"
        /\ \A q \in Workers \ {p} : dels[q] \cap hit = {}
        /\ dels' = [dels EXCEPT ![p] = hit]
        /\ pc' = [pc EXCEPT ![p] = "commit"]
        /\ UNCHANGED <<courses, summaries, nextSummaryId, started, req, prompt,
                       sent, ai, resp>>
        /\ UNCHANGED <<authVars, cardVars, deckVars>>

(* lines 267-273: db.add + db.commit (the INSERT is flushed by the commit), then
   the response. A row that breaks uq_course_summary makes the commit raise
   IntegrityError, which nothing in the handler catches; the transaction is
   rolled back. *)
GenerateCommit(p) ==
    LET text == SummaryTextOf(ai[p])
        row == SummaryRow(nextSummaryId, req[p].course_id, req[p].summary_length, text)
        after == {r \in summaries : r.summary_id \notin dels[p]} \cup {row}
    IN  /\ pc[p] = "commit"
        /\ IF UniqueCourseSummary(after)
           THEN /\ summaries' = after
                /\ nextSummaryId' = nextSummaryId + 1
                /\ resp' = [resp EXCEPT ![p] =
                        Success(text, <<"Summary generated and stored",
                                        req[p].summary_length, req[p].course_id>>)]
           ELSE /\ resp' = [resp EXCEPT ![p] = Raised("IntegrityError")]
                /\ UNCHANGED <<summaries, nextSummaryId>>
        /\ dels' = [dels EXCEPT ![p] = {}]
        /\ prompt' = [prompt EXCEPT ![p] = Empty]
        /\ pc' = [pc EXCEPT ![p] = "idle"]
        /\ UNCHANGED <<courses, started, req, sent, ai>>
        /\ UNCHANGED <<authVars, cardVars, deckVars>>

\* lines 276-313
GetSummary(p) ==
    /\ pc[p] = "idle"
    /\ started < MaxRequests
    /\ \E course_id \in RequestCourseIds, summary_length \in GetLengths :
        /\ req' = [req EXCEPT ![p] = GetRequest(course_id, summary_length)]
        /\ resp' = [resp EXCEPT ![p] = get_course_summary(course_id, summary_length)]
    /\ sent' = [sent EXCEPT ![p] = << >>]
    /\ ai' = [ai EXCEPT ![p] = NoOutcome]
    /\ started' = started + 1
    /\ UNCHANGED <<courses, summaries, nextSummaryId, pc, prompt, dels>>
    /\ UNCHANGED <<authVars, cardVars, deckVars>>

\* no request served yet
WorkersInit ==
    /\ started = 0
    /\ pc = [p \in Workers |-> "idle"]
    /\ req = [p \in Workers |-> NoRequest]
    /\ resp = [p \in Workers |-> NoResponse]

\* the tables as init_models creates them, and one ingested course
TablesInit(raw) ==
    /\ Strip(raw) # Empty
    /\ courses = [c \in CourseIds |-> Strip(raw)]
    /\ summaries = {}
    /\ nextSummaryId = 1
    /\ users = {}
    /\ nextUserId = 1

SummaryLocalsInit ==
    /\ prompt = [p \in Workers |-> Empty]
    /\ sent = [p \in Workers |-> << >>]
    /\ ai = [p \in Workers |-> NoOutcome]
    /\ dels = [p \in Workers |-> {}]

\* no flashcard generation under way
CardsIdle ==
    /\ fc_raw = [kind |-> "nojson", items |-> << >>]
    /\ fc_n = 0
    /\ fc_result = [status |-> "none", cards |-> << >>, error |-> ""]

\* the flashcards table as init_models creates it, no deck being built
DeckIdle ==
    /\ flashcards = {}
    /\ nextFlashcardId = 1
    /\ deck = [p \in Workers |-> << >>]
    /\ card_dels = [p \in Workers |-> {}]

Init ==
    /\ \E raw \in RawCourseTexts : TablesInit(raw)
    /\ WorkersInit
    /\ SummaryLocalsInit
    /\ CardsIdle
    /\ DeckIdle

Next ==
    \E p \in Workers :
        \/ GenerateStart(p)
        \/ GenerateCall(p)
        \/ GenerateDelete(p)
        \/ GenerateCommit(p)
        \/ GetSummary(p)

Spec == Init /\ [][Next]_vars

\* the summary generation handler alone
GenerateNext ==
    \E p \in Workers :
        \/ GenerateStart(p)
        \/ GenerateCall(p)
        \/ GenerateDelete(p)
        \/ GenerateCommit(p)

(* The external call returns or raises, and the database answers: a handler
   that can take its next step eventually takes it. *)
FairSpec ==
    /\ Init /\ [][GenerateNext]_vars
    /\ \A p \in Workers :
        /\ WF_vars(GenerateCall(p))
        /\ WF_vars(GenerateDelete(p))
        /\ WF_vars(GenerateCommit(p))

---------------------------------------------------------------------------
(* Properties of the summary endpoints *)

IsPost(p) == req[p].op = "generate_course_summary"

IsGet(p) == req[p].op = "get_course_summary"

\* the text T a request summarizes: the course content, stripped
TextOf(p) == Strip(courses[req[p].course_id])

\* the character budget of a request
BudgetOf(p) == SummaryMapGet(Lower(req[p].summary_length))

Succeeded(p) == pc[p] = "idle" /\ resp[p].status = "SUCCESS"

Min(a, b) == IF a <= b THEN a ELSE b

CeilDiv(a, b) == (a + b - 1) \div b

(* C1, as stated: the chunks handed to the external summarization call,
   concatenated in order, equal the text T exactly. *)
C1_ChunksCoverText ==
    \A p \in Workers :
        sent[p] # << >> => ConcatAll(sent[p]) = TextOf(p)

(* C1, amended: what is handed to the external call is the first
   min(len(T), 4000) characters of T, in order and once; it is all of T
   exactly when T has at most 4000 characters. *)
C1_HandedTextIsPrefix ==
    \A p \in Workers :
        sent[p] # << >> =>
            LET handed == ConcatAll(sent[p])
                T == TextOf(p)
            IN  /\ TextLen(handed) = Min(TextLen(T), MaxPromptChars)
                /\ Concat(handed, Suffix(T, TextLen(handed))) = T
                /\ (handed = T) <=> (TextLen(T) <= MaxPromptChars)

C1_Witness ==
    \E p \in Workers :
        /\ IsPost(p) /\ Succeeded(p)
        /\ TextLen(TextOf(p)) > MaxPromptChars
        /\ TextLen(ConcatAll(sent[p])) = MaxPromptChars

(* C2: the outline returned to the caller, and the one stored, has at most
   budget characters. *)
C2_OutlineWithinBudget ==
    /\ \A p \in Workers :
        (IsPost(p) /\ Succeeded(p)) => TextLen(resp[p].data) <= BudgetOf(p)
    /\ \A r \in summaries :
        TextLen(r.summary_content) <= SummaryMapGet(Lower(r.summary_length))

(* C3, as stated: a text that fits one chunk costs one external call, a text
   that needs n > 1 chunks costs n + 1 calls (so at least three). *)
C3_CallsFollowChunkCount ==
    \A p \in Workers :
        (IsPost(p) /\ Succeeded(p)) =>
            IF TextLen(TextOf(p)) <= MaxPromptChars
            THEN Len(sent[p]) = 1
            ELSE Len(sent[p]) = CeilDiv(TextLen(TextOf(p)), MaxPromptChars) + 1

(* C3, amended: a summarization request issues exactly one external call
   whatever the length of the text, and none before the call step; there is no
   merge call. *)
C3_ExactlyOneCall ==
    \A p \in Workers :
        /\ Len(sent[p]) = (IF ai[p] # NoOutcome \/ pc[p] \in {"delete", "commit"}
                           THEN 1 ELSE 0)
        /\ (IsPost(p) /\ Succeeded(p)) => Len(sent[p]) = 1

C3_Witness ==
    \E p \in Workers :
        /\ IsPost(p) /\ Succeeded(p)
        /\ CeilDiv(TextLen(TextOf(p)), MaxPromptChars) > 1
        /\ Len(sent[p]) = 1

(* C4, as stated: when the external call fails, the caller receives the
   underlying error itself, raised as-is. *)
C4_ErrorRaisedAsIs ==
    \A p \in Workers :
        (IsPost(p) /\ pc[p] = "idle" /\ ai[p] # NoOutcome /\ ~ai[p].ok)
            => resp[p] = Raised(ai[p].error)

(* C4, amended: when the external call raises, the request ends at once with
   no second call, nothing stored and no data returned; an error that is an
   Exception is not raised but turned into a FAIL response whose message
   names the error's type. *)
C4_CallFailureBecomesFail ==
    [][\A p \in Workers :
        (pc[p] = "call" /\ ai'[p] # NoOutcome /\ ~ai'[p].ok) =>
            /\ pc'[p] = "idle"
            /\ Len(sent'[p]) = 1
            /\ summaries' = summaries
            /\ resp'[p].data = Empty
            /\ IsException(ai'[p].error) =>
                resp'[p] = Fail(<<"AI summarization failed", ai'[p].error>>)]_vars

C4_Witness ==
    \E p \in Workers :
        /\ IsPost(p) /\ pc[p] = "idle"
        /\ ~ai[p].ok /\ ai[p].error = "RateLimitError"
        /\ resp[p].status = "FAIL"

(* C5: in every interleaving each request returns what it would return in
   some sequential order, and none fails because of another: a request that
   was accepted and whose external call succeeded returns SUCCESS. *)
C5_NoRequestFailsFromAnother ==
    \A p \in Workers :
        (IsPost(p) /\ pc[p] = "idle" /\ ai[p].ok) => resp[p].status = "SUCCESS"

(* C6: the store holds at most one summary per (course_id, summary_length),
   and when a request succeeds the summary stored for its pair is the text
   that request generated and returns, in place of any earlier one. *)
C6_OneSummaryPerPair ==
    /\ [](\A c \in RequestCourseIds, l \in RawLengths :
            Cardinality({r \in summaries :
                            r.course_id = c /\ r.summary_length = l}) <= 1)
    /\ [][\A p \in Workers :
            (pc[p] = "commit" /\ resp'[p].status = "SUCCESS") =>
                /\ resp'[p].data = SummaryTextOf(ai[p])
                /\ {r.summary_content : r \in {x \in summaries' :
                        /\ x.course_id = req[p].course_id
                        /\ x.summary_length = req[p].summary_length}}
                   = {resp'[p].data}]_vars

C6_Witness ==
    \E p, q \in Workers :
        /\ p # q
        /\ IsPost(p) /\ Succeeded(p) /\ IsPost(q) /\ Succeeded(q)
        /\ req[p] = req[q]
        /\ resp[p].data # resp[q].data
        /\ {r.summary_content : r \in summaries} = {resp[q].data}

(* C7: a GET for the course_id and summary_length value of a POST that
   succeeded (and whose summary is still the stored one) returns SUCCESS with
   the summary text the POST returned. *)
C7_GetReturnsPostedSummary ==
    [][\A p, q \in Workers :
        ( /\ IsPost(p) /\ Succeeded(p)
          /\ \E r \in summaries :
                /\ r.course_id = req[p].course_id
                /\ r.summary_length = req[p].summary_length
                /\ r.summary_content = resp[p].data
          /\ pc[q] = "idle" /\ req'[q] # req[q] /\ IsGet(q)'
          /\ req'[q].course_id = req[p].course_id
          /\ req'[q].summary_length = req[p].summary_length )
        => /\ resp'[q].status = "SUCCESS"
           /\ resp'[q].data.summary_content = resp[p].data]_vars

(* C10, as stated: the loop ends with the text exhausted, after at most
   ceil(len(T) / max) steps. *)
C10_TextExhausted ==
    \A p \in Workers :
        (IsPost(p) /\ Succeeded(p)) =>
            /\ TextLen(ConcatAll(sent[p])) = TextLen(TextOf(p))
            /\ Len(sent[p]) <= CeilDiv(TextLen(TextOf(p)), MaxPromptChars)

(* C10, amended: every request that starts ends; it cuts the text once, takes
   a non-empty piece of it, and hands text to the external call at most
   ceil(len(T) / 4000) times (once); the text is not exhausted when it is
   longer than 4000 characters. *)
C10_RequestTerminates ==
    /\ \A p \in Workers : [](pc[p] # "idle" => <>(pc[p] = "idle"))
    /\ [](\A p \in Workers :
            /\ pc[p] # "idle" => TextLen(prompt[p]) > 0
            /\ sent[p] # << >> =>
                Len(sent[p]) <= CeilDiv(TextLen(TextOf(p)), MaxPromptChars))

C10_Witness ==
    \E p \in Workers :
        /\ IsPost(p) /\ pc[p] = "idle" /\ sent[p] # << >>
        /\ TextLen(TextOf(p)) > 2 * MaxPromptChars
        /\ resp[p].status # "NONE"

---------------------------------------------------------------------------
(* POST /auth/signup and POST /auth/login *)

\* _success(msg, data) of auth_api
AuthSuccess(msg, data) == Success(data, msg)

\* e-mail addresses and passwords a payload may carry
Emails ==
    { <<"a", "@", "t">>, <<"A", "@", "T">>, <<" ", "a", "@", "t", " ">>,
      <<"b", "@", "t">>, <<" ">> }

Passwords == {"p", "P"}

SignUpRequest(id, user_email, user_password) ==
    [op |-> "signup", id |-> id, user_email |-> user_email,
     user_password |-> user_password]

LoginRequest(id, user_email, user_password) ==
    [op |-> "login", id |-> id, user_email |-> user_email,
     user_password |-> user_password]

\* SignUpAPI: email_norm = (payload.user_email or "").strip().lower()
SignUpEmailNorm(user_email) == Lower(StripW(user_email))

\* mutant: the login looks the address up without lower-casing it
LoginEmailNormNoLower(user_email) == StripW(user_email)

\* LoginAPI: email_norm = (payload.user_email or "").strip().lower()
LoginEmailNorm(user_email) == Lower(StripW(user_email))

\* select(User).where(func.lower(User.user_email) == email_norm)
UsersByEmail(email_norm) == {u \in users : Lower(u.user_email) = email_norm}

\* UniqueConstraint("user_email", name="uq_user_email")
UniqueUserEmail(rows) ==
    \A u1, u2 \in rows : u1.user_email = u2.user_email => u1 = u2

UserRow(id, user_email, user_password) ==
    [user_id |-> id, user_email |-> user_email, user_password |-> user_password]

\* SignUpAPI.__call__ up to the uniqueness check
SignUpStart(p) ==
    /\ pc[p] = "idle"
    /\ started < MaxRequests
    /\ \E user_email \in Emails, user_password \in Passwords :
        LET email_norm == SignUpEmailNorm(user_email)
            found == UsersByEmail(email_norm)
            stop(r) == /\ resp' = [resp EXCEPT ![p] = r]
                       /\ UNCHANGED pc
        IN  /\ req' = [req EXCEPT ![p] =
                        SignUpRequest(started + 1, user_email, user_password)]
            /\ IF email_norm = << >>
               THEN stop(Fail(<<"Email is required">>))
               ELSE IF Cardinality(found) > 1
               THEN stop(Raised("MultipleResultsFound"))
               ELSE IF found # {}
               THEN stop(Fail(<<"Email already exists">>))
               ELSE /\ pc' = [pc EXCEPT ![p] = "signup_commit"]
                    /\ resp' = [resp EXCEPT ![p] = NoResponse]
    /\ started' = started + 1
    /\ UNCHANGED <<summaryVars, authVars, cardVars, deckVars>>

(* SignUpAPI.__call__: db.add(user) + db.commit(). A row that breaks
   uq_user_email makes the commit raise IntegrityError, which the callable
   does not catch. *)
SignUpCommit(p) ==
    LET row == UserRow(nextUserId, SignUpEmailNorm(req[p].user_email),
                       req[p].user_password)
    IN  /\ pc[p] = "signup_commit"
        /\ IF UniqueUserEmail(users \cup {row})
           THEN /\ users' = users \cup {row}
                /\ nextUserId' = nextUserId + 1
                /\ resp' = [resp EXCEPT ![p] =
                        AuthSuccess(<<"User registered successfully">>,
                                    <<"user_id", row.user_id>>)]
           ELSE /\ resp' = [resp EXCEPT ![p] = Raised("IntegrityError")]
                /\ UNCHANGED <<users, nextUserId>>
        /\ pc' = [pc EXCEPT ![p] = "idle"]
        /\ UNCHANGED <<summaryVars, started, req, cardVars, deckVars>>

\* LoginAPI.__call__, a read of the committed table
login(user_email, user_password) ==
    LET email_norm == LoginEmailNorm(user_email)
        found == UsersByEmail(email_norm)
    IN  IF email_norm = << >>
        THEN Fail(<<"Email is required">>)
        ELSE IF Cardinality(found) > 1
        THEN Raised("MultipleResultsFound")
        ELSE IF found = {} \/ (CHOOSE u \in found : TRUE).user_password # user_password
        THEN Fail(<<"Invalid email or password">>)
        ELSE AuthSuccess(<<"Login successful">>,
                         <<"user_id", (CHOOSE u \in found : TRUE).user_id>>)

Login(p) ==
    /\ pc[p] = "idle"
    /\ started < MaxRequests
    /\ \E user_email \in Emails, user_password \in Passwords :
        /\ req' = [req EXCEPT ![p] =
                    LoginRequest(started + 1, user_email, user_password)]
        /\ resp' = [resp EXCEPT ![p] = login(user_email, user_password)]
    /\ started' = started + 1
    /\ UNCHANGED <<summaryVars, authVars, pc, cardVars, deckVars>>

AuthNext ==
    \E p \in Workers :
        \/ SignUpStart(p)
        \/ SignUpCommit(p)
        \/ Login(p)

AuthInit ==
    /\ TablesInit(<<Run("a", 10)>>)
    /\ WorkersInit
    /\ SummaryLocalsInit
    /\ CardsIdle
    /\ DeckIdle

AuthSpec == AuthInit /\ [][AuthNext]_vars

---------------------------------------------------------------------------
(* Properties of sign-up and login *)

\* a stored user with the submitted e-mail, trimmed and lower-cased, and the
\* submitted password
HasAccount(user_email, user_password) ==
    \E u \in users :
        /\ u.user_email = Lower(StripW(user_email))
        /\ u.user_password = user_password

(* C9: login returns SUCCESS exactly when a stored user has the submitted
   e-mail (trimmed, lower-cased) and the submitted password; after a sign-up
   succeeded, a login with that e-mail in any letter case and that password
   succeeds; a login leaves the store unchanged. *)
C9_LoginExact ==
    /\ [](\A e \in Emails, w \in Passwords :
            (login(e, w).status = "SUCCESS") <=> HasAccount(e, w))
    /\ [](\A p \in Workers :
            (req[p].op = "signup" /\ resp[p].status = "SUCCESS") =>
                \A e \in Emails :
                    Lower(StripW(e)) = Lower(StripW(req[p].user_email))
                        => login(e, req[p].user_password).status = "SUCCESS")
    /\ [][\A p \in Workers :
            (req'[p] # req[p] /\ req'[p].op = "login") =>
                /\ users' = users
                /\ (resp'[p].status = "SUCCESS")
                      <=> HasAccount(req'[p].user_email, req'[p].user_password)]_vars

C9_Witness ==
    \E p, q \in Workers :
        /\ req[p].op = "signup" /\ resp[p].status = "SUCCESS"
        /\ req[q].op = "login" /\ resp[q].status = "SUCCESS"
        /\ req[q].id > req[p].id
        /\ req[q].user_email # req[p].user_email
        /\ req[q].user_email # Lower(StripW(req[q].user_email))

\* the step ends a sign-up request of worker p with its response
SignUpEnds(p) ==
    /\ req'[p].op = "signup"
    /\ pc'[p] = "idle"
    /\ req'[p] # req[p] \/ pc[p] = "signup_commit"

(* C12: no two stored users have e-mails that are equal ignoring case, and a
   sign-up that ends while its e-mail (ignoring case and surrounding
   whitespace) is already stored returns the FAIL response 'Email already
   exists' and adds no user, also when two sign-ups for the same e-mail run
   concurrently. *)
C12_SignupRejectsStoredEmail ==
    /\ [](\A u1, u2 \in users :
            Lower(u1.user_email) = Lower(u2.user_email) => u1 = u2)
    /\ [][\A p \in Workers :
            (SignUpEnds(p) /\ UsersByEmail(SignUpEmailNorm(req'[p].user_email)) # {}) =>
                /\ resp'[p] = Fail(<<"Email already exists">>)
                /\ users' = users]_vars

---------------------------------------------------------------------------
(* _generate_flashcards_from_text of flashcards_api.py *)

MaxItems == 3
MaxN == 2

FrontMax == 500
BackMax == 1200

\* a text written letter by letter
RECURSIVE FromChars(_)
FromChars(w) ==
    IF w = << >> THEN Empty ELSE Concat(<<Run(Head(w), 1)>>, FromChars(Tail(w)))

Digits == <<"0", "1", "2", "3", "4", "5", "6", "7", "8", "9">>

\* str(j) of a number j >= 0
RECURSIVE DecimalText(_)
DecimalText(j) ==
    IF j < 10 THEN <<Run(Digits[j + 1], 1)>>
    ELSE Concat(DecimalText(j \div 10), <<Run(Digits[(j % 10) + 1], 1)>>)

(* JSON values under the keys "front" and "back" of an item: the key is
   absent, or holds null, or holds a string. *)
Absent == [k |-> "absent", s |-> Empty]

Null == [k |-> "null", s |-> Empty]

Str(T) == [k |-> "str", s |-> T]

\* str(item.get(key, ""))
StrOfValue(v) ==
    IF v.k = "absent" THEN Empty
    ELSE IF v.k = "null" THEN FromChars(<<"N", "o", "n", "e">>)
    ELSE v.s

Item(front, back) == [dict |-> TRUE, front |-> front, back |-> back]

\* an element of the list that is not a JSON object
NotADict == [dict |-> FALSE, front |-> Absent, back |-> Absent]

ItemPool ==
    { NotADict,
      Item(Str(<<Run(" ", 1), Run("q", 3), Run(" ", 2)>>), Str(<<Run("a", 2)>>)),
      Item(Str(<<Run("r", 1)>>), Str(<<Run("\n", 1), Run("s", 1)>>)),
      Item(Str(<<Run(" ", 2)>>), Str(<<Run("a", 1)>>)),
      Item(Str(<<Run("q", 1)>>), Absent),
      Item(Null, Str(<<Run("z", 1)>>)),
      Item(Str(<<Run("f", FrontMax + 1)>>), Str(<<Run("b", BackMax + 1)>>)) }

RECURSIVE ItemLists(_)
ItemLists(k) ==
    IF k = 0 THEN { << >> }
    ELSE LET shorter == ItemLists(k - 1)
         IN  shorter \cup {Append(l, i) : l \in {x \in shorter : Len(x) = k - 1},
                                          i \in ItemPool}

(* The model output text, by how lines 49-58 read it: a JSON array; a JSON
   object or a fenced text whose outermost [ ... ] span is a JSON array; a text
   whose [ ... ] span is not JSON; a text without such a span. *)
RawOutputs ==
    {[kind |-> k, items |-> l] : k \in {"array", "object", "fenced"},
                                 l \in ItemLists(MaxItems)}
    \cup {[kind |-> k, items |-> << >>] : k \in {"broken", "nojson"}}

\* lines 49-58: data, or the error raised
ParseCards(raw) ==
    IF raw.kind \in {"array", "object", "fenced"}
    THEN [ok |-> TRUE, data |-> raw.items, error |-> ""]
    ELSE IF raw.kind = "broken"
    THEN [ok |-> FALSE, data |-> << >>, error |-> "JSONDecodeError"]
    ELSE [ok |-> FALSE, data |-> << >>, error |-> "ValueError"]

Card(front, back) == [front |-> front, back |-> back]

\* str(item.get(key, "")).strip()
FieldText(v) == Strip(StrOfValue(v))

\* mutant: a card is kept when either side has text
KeepsCardEither(front, back) == front # Empty \/ back # Empty

\* if front and back
KeepsCard(front, back) == front # Empty /\ back # Empty

\* lines 60-67: the loop over data
RECURSIVE CollectCards(_, _, _)
CollectCards(data, cards, n) ==
    IF data = << >> THEN cards
    ELSE LET item == Head(data)
             front == FieldText(item.front)
             back == FieldText(item.back)
             kept == IF KeepsCard(front, back)
                     THEN Append(cards, Card(Prefix(front, FrontMax),
                                             Prefix(back, BackMax)))
                     ELSE cards
         IN  IF ~item.dict THEN CollectCards(Tail(data), cards, n)
             ELSE IF Len(kept) = n THEN kept
             ELSE CollectCards(Tail(data), kept, n)

\* {"front": f"Key idea {len(cards)+1}?", "back": "Brief explanation."}
Placeholder(cards) ==
    Card(Concat(FromChars(<<"K", "e", "y", " ", "i", "d", "e", "a", " ">>),
                Concat(DecimalText(Len(cards) + 1), FromChars(<<"?">>))),
         FromChars(<<"B", "r", "i", "e", "f", " ", "e", "x", "p", "l", "a",
                     "n", "a", "t", "i", "o", "n", ".">>))

\* lines 69-71: for _ in range(k): cards.append(placeholder)
RECURSIVE PadCards(_, _)
PadCards(cards, k) ==
    IF k <= 0 THEN cards
    ELSE PadCards(Append(cards, Placeholder(cards)), k - 1)

\* lines 69-74
FitCards(cards, n) ==
    IF Len(cards) < n THEN PadCards(cards, n - Len(cards))
    ELSE IF Len(cards) > n THEN SubSeq(cards, 1, n)
    ELSE cards

\* _generate_flashcards_from_text(text, n), given the model output raw
generate_flashcards_from_text(raw, n) ==
    LET parsed == ParseCards(raw)
    IN  IF parsed.ok
        THEN [status |-> "ok", cards |-> FitCards(CollectCards(parsed.data, << >>, n), n),
              error |-> ""]
        ELSE [status |-> "error", cards |-> << >>, error |-> parsed.error]

GenerateFlashcards ==
    /\ fc_result.status = "none"
    /\ fc_result' = generate_flashcards_from_text(fc_raw, fc_n)
    /\ UNCHANGED <<summaryVars, workerVars, authVars, fc_raw, fc_n, deckVars>>

CardsInit ==
    /\ TablesInit(<<Run("a", 10)>>)
    /\ WorkersInit
    /\ SummaryLocalsInit
    /\ fc_raw \in RawOutputs
    /\ fc_n \in 0..MaxN
    /\ fc_result = [status |-> "none", cards |-> << >>, error |-> ""]
    /\ DeckIdle

CardsNext == GenerateFlashcards

CardsSpec == CardsInit /\ [][CardsNext]_vars

---------------------------------------------------------------------------
(* Properties of the flashcard generator *)

\* the items of a list that yield a card: dicts whose front and back, as
\* strings without surrounding whitespace, are both non-empty
RECURSIVE ValidItems(_)
ValidItems(data) ==
    IF data = << >> THEN << >>
    ELSE LET i == Head(data)
             ok == /\ i.dict
                   /\ Strip(StrOfValue(i.front)) # Empty
                   /\ Strip(StrOfValue(i.back)) # Empty
         IN  (IF ok THEN <<i>> ELSE << >>) \o ValidItems(Tail(data))

\* the card of a valid item: its two texts, stripped and cut to 500 / 1200
CardOf(i) ==
    Card(Prefix(Strip(StrOfValue(i.front)), FrontMax),
         Prefix(Strip(StrOfValue(i.back)), BackMax))

IsPlaceholder(c, j) ==
    /\ c.front = Concat(FromChars(<<"K", "e", "y", " ", "i", "d", "e", "a", " ">>),
                        Concat(DecimalText(j), <<Run("?", 1)>>))
    /\ c.back = FromChars(<<"B", "r", "i", "e", "f", " ", "e", "x", "p", "l", "a",
                            "n", "a", "t", "i", "o", "n", ".">>)

\* the items that are dicts holding a non-empty front and a non-empty back
RECURSIVE NonEmptyItems(_)
NonEmptyItems(data) ==
    IF data = << >> THEN << >>
    ELSE LET i == Head(data)
             ok == /\ i.dict
                   /\ i.front.k = "str" /\ i.front.s # Empty
                   /\ i.back.k = "str" /\ i.back.s # Empty
         IN  (IF ok THEN <<i>> ELSE << >>) \o NonEmptyItems(Tail(data))

(* C8, as stated: whenever the model output parses to a JSON list, the
   function returns exactly n cards: the first min(k, n) valid items (dicts
   with non-empty front and back) themselves, in model order, then n - k
   placeholder cards when only k < n items are valid. *)
C8_FirstValidItemsVerbatim ==
    (fc_result.status # "none" /\ fc_raw.kind \in {"array", "object", "fenced"}) =>
        LET valid == NonEmptyItems(fc_raw.items)
            k == Len(valid)
            cards == fc_result.cards
        IN  /\ fc_result.status = "ok"
            /\ Len(cards) = fc_n
            /\ \A j \in 1..fc_n :
                IF j <= k THEN cards[j] = Card(valid[j].front.s, valid[j].back.s)
                ELSE IsPlaceholder(cards[j], j)

(* C8, amended: whenever the model output parses to a JSON list, the function
   returns exactly n cards: for the first min(k, n) valid items in model order
   (dicts whose front and back, as strings without surrounding whitespace,
   are non-empty) the card of the stripped texts cut to 500 and 1200
   characters, then n - k placeholder cards when only k < n items are valid. *)
C8_ExactlyNCards ==
    (fc_result.status # "none" /\ fc_raw.kind \in {"array", "object", "fenced"}) =>
        LET valid == ValidItems(fc_raw.items)
            k == Len(valid)
            cards == fc_result.cards
        IN  /\ fc_result.status = "ok"
            /\ Len(cards) = fc_n
            /\ \A j \in 1..fc_n :
                IF j <= k THEN cards[j] = CardOf(valid[j])
                ELSE IsPlaceholder(cards[j], j)

C8_Witness ==
    /\ fc_result.status = "ok"
    /\ fc_n = 2
    /\ Len(fc_raw.items) = 3
    /\ Len(ValidItems(fc_raw.items)) = 1
    /\ ~fc_raw.items[1].dict
    /\ IsPlaceholder(fc_result.cards[2], 2)

---------------------------------------------------------------------------
(* POST /courses/{course_id}/flashcards and GET /courses/{course_id}/flashcards *)

\* _generate_flashcards_from_text(content, n=10)
DeckSize == 10

DeckCourseIds == {1, 2}

\* course ids a flashcard request may name: the stored ones and one that is not
DeckRequestCourseIds == DeckCourseIds \cup {3}

FlashRequest(course_id) ==
    [op |-> "create_or_replace_flashcards", course_id |-> course_id,
     summary_length |-> << >>]

GetFlashRequest(course_id) ==
    [op |-> "get_flashcards", course_id |-> course_id, summary_length |-> << >>]

FlashcardRow(id, course_id, card_index, front_text, back_text) ==
    [flashcard_id |-> id, course_id |-> course_id, card_index |-> card_index,
     front_text |-> front_text, back_text |-> back_text]

\* the where clause of the delete and of the select: Flashcard.course_id == course_id
MatchesFlashcard(r, course_id) == r.course_id = course_id

\* mutant: the table without its unique constraint
UniqueCourseCardSlotMissing(rows) == TRUE

\* UniqueConstraint("course_id", "card_index", name="uq_course_card_slot")
UniqueCourseCardSlot(rows) ==
    \A r1, r2 \in rows :
        (r1.course_id = r2.course_id /\ r1.card_index = r2.card_index) => r1 = r2

(* What the model may answer to one flashcard request: a bare array without
   items, a fenced array holding one valid item among others, a JSON object
   wrapping an array of one over-long item, a span that is not JSON, no span. *)
DeckRawOutputs ==
    { [kind |-> "array", items |-> << >>],
      [kind |-> "fenced",
       items |-> <<NotADict,
                   Item(Str(<<Run("r", 1)>>), Str(<<Run("\n", 1), Run("s", 1)>>)),
                   Item(Str(<<Run("q", 1)>>), Absent)>>],
      [kind |-> "object",
       items |-> <<Item(Str(<<Run("f", FrontMax + 1)>>),
                        Str(<<Run("b", BackMax + 1)>>))>>],
      [kind |-> "broken", items |-> << >>],
      [kind |-> "nojson", items |-> << >>] }

\* errors raised inside _generate_flashcards_from_text before raw is read:
\* by _get_openai_client, by client.responses.create
DeckCallErrors == {"RuntimeError", "RateLimitError", "KeyboardInterrupt"}

(* lines 94-99: cards, or the response of the except branches. RuntimeError is
   answered with its text, any other Exception with its type name; what is not
   an Exception leaves the handler. *)
OnDeckError(kind) ==
    IF kind = "RuntimeError" THEN Fail(<<"Missing OPENAI_API_KEY">>)
    ELSE IF IsException(kind) THEN Fail(<<"AI call failed", kind>>)
    ELSE Raised(kind)

\* lines 81-92: the read of the course and of its content
FlashStart(p) ==
    /\ pc[p] = "idle"
    /\ started < MaxRequests
    /\ \E course_id \in DeckRequestCourseIds :
        LET content == IF course_id \in DOMAIN courses
                       THEN Strip(courses[course_id]) ELSE Empty
        IN  /\ req' = [req EXCEPT ![p] = FlashRequest(course_id)]
            /\ IF course_id \notin DOMAIN courses
               THEN /\ resp' = [resp EXCEPT ![p] = Fail(<<"Course not found", course_id>>)]
                    /\ UNCHANGED pc
               ELSE IF content = Empty
               THEN /\ resp' = [resp EXCEPT ![p] = Fail(<<"Course has no content", course_id>>)]
                    /\ UNCHANGED pc
               ELSE /\ pc' = [pc EXCEPT ![p] = "fc_call"]
                    /\ resp' = [resp EXCEPT ![p] = NoResponse]
    /\ deck' = [deck EXCEPT ![p] = << >>]
    /\ started' = started + 1
    /\ UNCHANGED <<summaryVars, authVars, cardVars>>
    /\ UNCHANGED <<flashcards, nextFlashcardId, card_dels>>

\* lines 94-99: cards = _generate_flashcards_from_text(content, n=10)
FlashCall(p) ==
    /\ pc[p] = "fc_call"
    /\ \/ \E raw \in DeckRawOutputs :
            LET got == generate_flashcards_from_text(raw, DeckSize)
            IN  IF got.status = "ok"
                THEN /\ deck' = [deck EXCEPT ![p] = got.cards]
                     /\ pc' = [pc EXCEPT ![p] = "fc_delete"]
                     /\ UNCHANGED resp
                ELSE /\ resp' = [resp EXCEPT ![p] = OnDeckError(got.error)]
                     /\ pc' = [pc EXCEPT ![p] = "idle"]
                     /\ UNCHANGED deck
       \/ \E kind \in DeckCallErrors :
            /\ resp' = [resp EXCEPT ![p] = OnDeckError(kind)]
            /\ pc' = [pc EXCEPT ![p] = "idle"]
            /\ UNCHANGED deck
    /\ UNCHANGED <<summaryVars, authVars, cardVars, started, req>>
    /\ UNCHANGED <<flashcards, nextFlashcardId, card_dels>>

\* the rows another open transaction has deleted and keeps locked
LockedByOthers(p) ==
    UNION {card_dels[q] : q \in {w \in Workers \ {p} : pc[w] = "fc_commit"}}

(* line 102: db.execute(delete(Flashcard).where(...)) in a new transaction. The
   statement matches the committed rows of the course. When none of them is
   locked they are deleted and stay locked until the transaction ends; when
   another open transaction holds one of them the statement waits. *)
FlashDelete(p) ==
    LET hit == {r.flashcard_id : r \in {x \in flashcards :
                    MatchesFlashcard(x, req[p].course_id)}}
    IN  /\ pc[p] = "fc_delete"
        /\ card_dels' = [card_dels EXCEPT ![p] = hit]
        /\ pc' = [pc EXCEPT ![p] =
                    IF hit \cap LockedByOthers(p) = {} THEN "fc_commit" ELSE "fc_wait"]
        /\ UNCHANGED <<summaryVars, authVars, cardVars, started, req, resp>>
        /\ UNCHANGED <<flashcards, nextFlashcardId, deck>>

(* line 102, the end of the wait: the statement goes on once the rows it
   matched are free again. It deletes those of them that still exist; rows
   committed after the statement began are not seen by it. *)
FlashDeleteResume(p) ==
    /\ pc[p] = "fc_wait"
    /\ card_dels[p] \cap LockedByOthers(p) = {}
    /\ card_dels' = [card_dels EXCEPT ![p] =
                        @ \cap {r.flashcard_id : r \in flashcards}]
    /\ pc' = [pc EXCEPT ![p] = "fc_commit"]
    /\ UNCHANGED <<summaryVars, authVars, cardVars, started, req, resp>>
    /\ UNCHANGED <<flashcards, nextFlashcardId, deck>>

\* enumerate(cards, start=1): the card_index of the j-th card
CardIndex(j) == j

\* lines 103-105: the rows added for the cards, flashcard_ids from first_id on
NewFlashcards(course_id, cs, first_id) ==
    {FlashcardRow(first_id + j - 1, course_id, CardIndex(j), cs[j].front, cs[j].back) :
        j \in 1..Len(cs)}

(* lines 103-109: db.add for each card + db.commit (the INSERTs are flushed by
   the commit), then the response. A row that breaks uq_course_card_slot makes
   the commit raise IntegrityError, which nothing in the handler catches; the
   transaction is rolled back. *)
FlashCommit(p) ==
    LET course_id == req[p].course_id
        rows == NewFlashcards(course_id, deck[p], nextFlashcardId)
        after == {r \in flashcards : r.flashcard_id \notin card_dels[p]} \cup rows
    IN  /\ pc[p] = "fc_commit"
        /\ IF UniqueCourseCardSlot(after)
           THEN /\ flashcards' = after
                /\ nextFlashcardId' = nextFlashcardId + Len(deck[p])
                /\ resp' = [resp EXCEPT ![p] =
                        Success(<<"Inserted", DeckSize, "flashcards", course_id>>,
                                <<"Flashcards generated and replaced successfully.">>)]
           ELSE /\ resp' = [resp EXCEPT ![p] = Raised("IntegrityError")]
                /\ UNCHANGED <<flashcards, nextFlashcardId>>
        /\ card_dels' = [card_dels EXCEPT ![p] = {}]
        /\ pc' = [pc EXCEPT ![p] = "idle"]
        /\ UNCHANGED <<summaryVars, authVars, cardVars, started, req, deck>>

\* .order_by(Flashcard.card_index.asc())
RECURSIVE OrderByCardIndex(_)
OrderByCardIndex(rows) ==
    IF rows = {} THEN << >>
    ELSE LET r == CHOOSE x \in rows : \A y \in rows : x.card_index <= y.card_index
         IN  <<r>> \o OrderByCardIndex(rows \ {r})

\* get_flashcards, a read of the committed table
get_flashcards(course_id) ==
    LET payload == OrderByCardIndex({r \in flashcards : MatchesFlashcard(r, course_id)})
    IN  Success(payload, <<"Fetched", Len(payload), "flashcard(s)", course_id>>)

\* lines 113-143
GetFlashcards(p) ==
    /\ pc[p] = "idle"
    /\ started < MaxRequests
    /\ \E course_id \in DeckRequestCourseIds :
        /\ req' = [req EXCEPT ![p] = GetFlashRequest(course_id)]
        /\ resp' = [resp EXCEPT ![p] = get_flashcards(course_id)]
    /\ started' = started + 1
    /\ UNCHANGED <<summaryVars, authVars, cardVars, deckVars, pc>>

\* the tables as init_models creates them, and two ingested courses
DeckInit ==
    /\ courses = [c \in DeckCourseIds |-> <<Run("a", 10)>>]
    /\ summaries = {}
    /\ nextSummaryId = 1
    /\ users = {}
    /\ nextUserId = 1
    /\ WorkersInit
    /\ SummaryLocalsInit
    /\ CardsIdle
    /\ DeckIdle

DeckNext ==
    \E p \in Workers :
        \/ FlashStart(p)
        \/ FlashCall(p)
        \/ FlashDelete(p)
        \/ FlashDeleteResume(p)
        \/ FlashCommit(p)
        \/ GetFlashcards(p)

DeckSpec == DeckInit /\ [][DeckNext]_vars

---------------------------------------------------------------------------
(* Properties of the flashcard endpoints *)

IsFlash(p) == req[p].op = "create_or_replace_flashcards"

\* the flashcards a table holds for a course
FlashcardsOf(rows, course_id) == {r \in rows : r.course_id = course_id}

\* exactly 10 rows, card_index 1..10 each used once
DeckComplete(rows) ==
    /\ Cardinality(rows) = DeckSize
    /\ \A j \in 1..DeckSize : Cardinality({r \in rows : r.card_index = j}) = 1

(* C11: after a create_or_replace_flashcards request returned SUCCESS for a
   course, the store holds exactly 10 flashcards for that course, card_index
   1..10 each used once (and the GET endpoint lists them in that order); the
   commit that produced the SUCCESS leaves for the course the 10 cards of this
   request and no row that was stored for it before, under flashcard_ids never
   handed out before, and leaves the flashcards of other courses unchanged. *)
C11_SuccessReplacesDeck ==
    /\ [](\A p \in Workers :
            (IsFlash(p) /\ Succeeded(p)) =>
                LET payload == get_flashcards(req[p].course_id).data
                IN  /\ DeckComplete(FlashcardsOf(flashcards, req[p].course_id))
                    /\ Len(payload) = DeckSize
                    /\ \A j \in 1..DeckSize : payload[j].card_index = j)
    /\ [](\A r \in flashcards : r.flashcard_id < nextFlashcardId)
    /\ [][/\ nextFlashcardId' >= nextFlashcardId
          /\ \A p \in Workers :
                (IsFlash(p) /\ pc[p] # "idle" /\ pc'[p] = "idle"
                    /\ resp'[p].status = "SUCCESS") =>
                    LET c == req[p].course_id
                        before == FlashcardsOf(flashcards, c)
                        after == FlashcardsOf(flashcards', c)
                    IN  /\ DeckComplete(after)
                        /\ after \cap before = {}
                        /\ \A r \in after :
                            /\ r.flashcard_id >= nextFlashcardId
                            /\ r.front_text = deck[p][r.card_index].front
                            /\ r.back_text = deck[p][r.card_index].back
                        /\ \A other \in DeckCourseIds \ {c} :
                            FlashcardsOf(flashcards', other)
                                = FlashcardsOf(flashcards, other)]_vars

C11_Witness ==
    \E p \in Workers :
        /\ IsFlash(p) /\ Succeeded(p)
        /\ DeckComplete(FlashcardsOf(flashcards, req[p].course_id))
        /\ \A r \in FlashcardsOf(flashcards, req[p].course_id) :
            r.flashcard_id > 2 * DeckSize
        /\ \E other \in DeckCourseIds \ {req[p].course_id} :
            /\ DeckComplete(FlashcardsOf(flashcards, other))
            /\ \A r \in FlashcardsOf(flashcards, other) : r.flashcard_id > DeckSize

=============================================================================
